---- MODULE Spec2Model ----
(***************************************************************************)
(* Pulse Predict backend (src/backend/app/main.py): the sensor-result      *)
(* cache DATA_CACHE, the decision cache AGENT_CACHE, the action dispatcher *)
(* execute_action and the deferred inventory task, as one state machine.   *)
(*                                                                         *)
(* The two endpoints are `async def` handlers without an await in their    *)
(* body, so the event loop runs each of them to completion: one action per *)
(* handler.  delayed_inventory_update awaits once (asyncio.sleep), so it   *)
(* is one action that fires after the delay.                               *)
(*                                                                         *)
(* get_current_month_trends (src/backend/agentic/GetGoogleTrends.py) runs  *)
(* synchronously and blocks on the network: one action per API attempt,    *)
(* and one for its last step on the CSV log.                               *)
(*                                                                         *)
(* Time is in seconds.  The code's floats (readings, rates, risk scores)   *)
(* are integers in tenths; the search-trend values, which the code passes  *)
(* through int(), and the day count are whole numbers.                      *)
(***************************************************************************)
EXTENDS Integers, Sequences, FiniteSets, TLC

VARIABLES
    now,              \* datetime.now(), seconds since start
    GROQ_API_KEY,     \* os.getenv("GROQ_API_KEY") is set
    DATA_CACHE,       \* source name -> [data, timestamp]
    AGENT_CACHE,      \* [last_hash, response, timestamp]
    HOSPITAL_STATE,   \* [inventory, system_logs]
    background_tasks, \* deferred tasks added and not yet completed
    po_count,         \* purchase orders executed so far
    orders,           \* history: every deferred task ever added, in order
    fetch_log,        \* per source: when its fetch function was last invoked, and what came back
    agent_log,        \* history: the language model's latest invocation for each hash
    LOG_FILE,         \* daily_trends_log.csv: [exists, corrupt, lines]
    trends_call,      \* the running call of get_current_month_trends
    last              \* the most recent handler call and what it returned

vars == <<now, GROQ_API_KEY, DATA_CACHE, AGENT_CACHE, HOSPITAL_STATE,
          background_tasks, po_count, orders, fetch_log, agent_log,
          LOG_FILE, trends_call, last>>

----------------------------------------------------------------------------
(* Python values *)

\* Python's None, as a record so that it compares with dicts.
None == [none |-> TRUE]

\* A datetime that is None (AGENT_CACHE["timestamp"], entry["timestamp"]).
NoTime == -1

\* float("nan"): what pandas reads from an empty CSV cell.  Search-interest
\* values lie in 0..100, so -1 stands for it.
NaN == -1

\* The empty dict {} (json.loads("{}")).
EmptyDict == [empty |-> TRUE]

\* bool(v) of a value that is None or a dict.
Truthy(v) == v # None /\ v # EmptyDict

Min(a, b) == IF a < b THEN a ELSE b

----------------------------------------------------------------------------
(* Configuration *)

DATA_TTL == 3600
AGENT_TTL == 1800

\* asyncio.sleep(10) of delayed_inventory_update
SHIP_DELAY == 10

SOURCES == {"weather", "aqi", "trends", "baseline"}

MaxTicks == 4

MaxOrders == 2

CacheTick == AGENT_TTL \div 2

----------------------------------------------------------------------------
(* The fetchers: what one call of a fetch function can do *)

Raise == [raises |-> TRUE, data |-> None]
Return(d) == [raises |-> FALSE, data |-> d]

Weather(temp, rain, lag, hum) ==
    [Monthly_Avg_Temp |-> temp, Rainfall_mm |-> rain,
     Rainfall_Lag_2 |-> lag, Monthly_Avg_Humidity |-> hum]

\* get_current_month_weather on an API error or an empty answer
WeatherZeros == Weather(0, 0, 0, 0)

Aqi(avg, severe) == [Monthly_Avg_AQI |-> avg, Days_Severe_AQI |-> severe]

\* get_current_month_aqi on an API error or an empty answer
AqiZeros == Aqi(0, 0)

TREND_KEYS == {"dengue", "fever", "asthma", "cough", "cold",
               "loose motion", "vomiting", "stomach pain"}

\* get_current_month_trends when the API and the CSV backup both fail
TrendsZeros == [k \in TREND_KEYS |-> 0]

Baseline(v, r, w) == [Rate_Vector |-> v, Rate_Respiratory |-> r, Rate_Water |-> w]

\* get_monthly_baseline when the master dataset is missing
BaselineZeros == Baseline(0, 0, 0)

\* Readings the APIs deliver (bounded).  The second weather reading differs
\* from the first in humidity only, the third in temperature only; the
\* three give the same scores.
Weather1 == Weather(300, 1200, 450, 600)
Weather2 == Weather(300, 1200, 450, 650)
Weather3 == Weather(310, 1200, 450, 600)
Aqi1 == Aqi(1600, 3)
Trends1 == [k \in TREND_KEYS |-> IF k \in {"dengue", "fever"} THEN 70 ELSE 20]
Baseline1 == Baseline(15, 30, 10)

\* get_current_month_trends on an API failure, when the last row of the CSV
\* backup has an empty cell under "dengue".
TrendsNaN == [k \in TREND_KEYS |-> IF k = "dengue" THEN NaN ELSE 20]

----------------------------------------------------------------------------
(* get_current_month_trends (GetGoogleTrends.py), one step per API attempt *)

KEYWORDS_LIST ==
    <<"asthma", "sore throat", "cough", "cold", "dengue", "fever", "loose motion",
      "vomiting", "stomach pain", "chest pain", "headache", "fatigue">>

\* range(0, len(KEYWORDS_LIST), 5)
BATCH_SIZE == 5

\* range(3)
ATTEMPTS == 3

MaxCalls == 2

\* KEYWORDS_LIST[i:i+5], i counted from 0
Batch(i) == SubSeq(KEYWORDS_LIST, i + 1, Min(i + BATCH_SIZE, Len(KEYWORDS_LIST)))

\* A dict is the sequence of its <<key, value>> items, in insertion order.
\* d[key] = value
DictSet(d, key, value) ==
    IF \E j \in 1..Len(d) : d[j][1] = key
    THEN [j \in 1..Len(d) |-> IF d[j][1] = key THEN <<key, value>> ELSE d[j]]
    ELSE Append(d, <<key, value>>)

\* d.update(items)
RECURSIVE DictUpdate(_, _)
DictUpdate(d, items) ==
    IF items = <<>> THEN d
    ELSE CHOOSE r \in {DictUpdate(e, Tail(items)) :
                          e \in {DictSet(d, items[1][1], items[1][2])}} : TRUE

\* The floats of the fetcher, in tenths, and their text in the CSV file.
FLOAT_TEXT == << <<0, "0.0">>, <<300, "30.0">>, <<500, "50.0">> >>

\* to_csv writing a float, read_csv parsing one
FloatToText(x) ==
    FLOAT_TEXT[CHOOSE j \in 1..Len(FLOAT_TEXT) : FLOAT_TEXT[j][1] = x][2]
TextToFloat(text) ==
    FLOAT_TEXT[CHOOSE j \in 1..Len(FLOAT_TEXT) : FLOAT_TEXT[j][2] = text][1]

\* What one build_payload + interest_over_time does: raise (rate limit,
\* network), return daily values, return an empty frame.
ApiOutcomes == {"raise", "data", "empty"}

\* data.mean().to_dict() of a batch (bounded: every mean is 50.0), and the
\* zeros written for an empty frame.
Means(batch) == [j \in 1..Len(batch) |-> <<batch[j], 500>>]
BatchZeros(batch) == [j \in 1..Len(batch) |-> <<batch[j], 0>>]

\* {kw: 0.0 for kw in KEYWORDS_LIST}
KeywordZeros == BatchZeros(KEYWORDS_LIST)

\* datetime.now().strftime(...) at the n-th call
STAMPS == <<"09:00", "10:00", "11:00", "12:00">>

\* The CSV file: whether it exists, whether read_csv fails on it, its lines
\* (each the sequence of its cells).
NoFile == [exists |-> FALSE, corrupt |-> FALSE, lines |-> <<>>]

HEADER == Append(KEYWORDS_LIST, "timestamp")

\* The files a call may find: none, a header without rows, a header and a
\* row of an earlier day, a file that cannot be parsed.
LogFiles ==
    {NoFile,
     [exists |-> TRUE, corrupt |-> FALSE, lines |-> <<HEADER>>],
     [exists |-> TRUE, corrupt |-> FALSE,
      lines |-> <<HEADER, [j \in 1..Len(HEADER) |->
                              IF j = Len(HEADER) THEN "08:00" ELSE "30.0"]>>],
     [exists |-> TRUE, corrupt |-> TRUE, lines |-> <<>>]}

\* df_log.to_csv(LOG_FILE, mode='a', header=header, index=False) of the
\* entry current_trends + timestamp
to_csv(file, current_trends, stamp) ==
    [exists |-> TRUE, corrupt |-> file.corrupt,
     lines |-> file.lines
               \o (IF ~file.exists
                   THEN << Append([j \in 1..Len(current_trends) |-> current_trends[j][1]],
                                  "timestamp") >>
                   ELSE <<>>)
               \o << Append([j \in 1..Len(current_trends) |->
                                FloatToText(current_trends[j][2])], stamp) >>]

\* df.iloc[-1].to_dict() without its timestamp and data_source items
last_entry(lines) ==
    LET columns == lines[1]
        row == lines[Len(lines)]
    IN CHOOSE r \in
           {[n \in 1..Len(kept) |-> <<columns[kept[n]], TextToFloat(row[kept[n]])>>] :
                kept \in {SelectSeq([j \in 1..Len(columns) |-> j],
                                    LAMBDA j : columns[j] \notin {"timestamp", "data_source"})}} :
           TRUE

\* Step 4 on an API failure: the CSV backup, or zeros.
csv_backup(file) ==
    IF file.exists /\ ~file.corrupt /\ Len(file.lines) > 1
    THEN last_entry(file.lines)
    ELSE KeywordZeros

\* The frame of a call: pc is "attempt" inside the retry loop, "result" at
\* step 4, "done" after the return.  outcomes is the history of the API
\* attempts of the call, found the file as the call found it.
NoCall ==
    [pc |-> "idle", call |-> 0, i |-> 0, attempt |-> 0, current_trends |-> <<>>,
     api_failure |-> FALSE, outcomes |-> <<>>, found |-> NoFile, ret |-> <<>>]

\* The names of the server's variables.
server_vars == <<now, GROQ_API_KEY, DATA_CACHE, AGENT_CACHE, HOSPITAL_STATE,
                 background_tasks, po_count, orders, fetch_log, agent_log, last>>

\* get_current_month_trends() is called.
trends_start ==
    /\ trends_call.pc \in {"idle", "done"}
    /\ trends_call.call < MaxCalls
    /\ trends_call' = [NoCall EXCEPT !.pc = "attempt", !.call = trends_call.call + 1,
                                     !.found = LOG_FILE]
    /\ UNCHANGED LOG_FILE
    /\ UNCHANGED server_vars

\* range(3) is used up after every try.
MoreAttempts_Always(attempt) == TRUE

\* for attempt in range(3): another iteration follows this one
MoreAttempts(attempt) == attempt + 1 < ATTEMPTS

\* One iteration of the retry loop, and what follows it in the batch loop.
trends_attempt(outcome) ==
    /\ trends_call.pc = "attempt"
    /\ trends_call' =
           IF outcome = "raise"
           THEN IF MoreAttempts(trends_call.attempt)
                THEN [trends_call EXCEPT !.attempt = @ + 1,
                                         !.outcomes = Append(@, outcome)]
                ELSE [trends_call EXCEPT !.api_failure = TRUE, !.pc = "result",
                                         !.outcomes = Append(@, outcome)]
           ELSE [trends_call EXCEPT
                     !.current_trends =
                         DictUpdate(@, IF outcome = "data"
                                       THEN Means(Batch(trends_call.i))
                                       ELSE BatchZeros(Batch(trends_call.i))),
                     !.outcomes = Append(@, outcome),
                     !.attempt = 0,
                     !.i = @ + BATCH_SIZE,
                     !.pc = IF trends_call.i + BATCH_SIZE < Len(KEYWORDS_LIST)
                            THEN "attempt" ELSE "result"]
    /\ UNCHANGED LOG_FILE
    /\ UNCHANGED server_vars

\* Step 4 returning the collected values on a failure as well.
trends_result_Partial ==
    /\ trends_call.pc = "result"
    /\ IF trends_call.api_failure
       THEN /\ trends_call' = [trends_call EXCEPT
                                   !.pc = "done",
                                   !.ret = DictUpdate(csv_backup(LOG_FILE),
                                                      trends_call.current_trends)]
            /\ UNCHANGED LOG_FILE
       ELSE /\ LOG_FILE' = to_csv(LOG_FILE, trends_call.current_trends,
                                  STAMPS[trends_call.call])
            /\ trends_call' = [trends_call EXCEPT !.pc = "done",
                                                  !.ret = trends_call.current_trends]
    /\ UNCHANGED server_vars

\* Steps 4 and 5: the backup on a failure, else the log row and the values.
trends_result ==
    /\ trends_call.pc = "result"
    /\ IF trends_call.api_failure
       THEN /\ trends_call' = [trends_call EXCEPT !.pc = "done",
                                                  !.ret = csv_backup(LOG_FILE)]
            /\ UNCHANGED LOG_FILE
       ELSE /\ LOG_FILE' = to_csv(LOG_FILE, trends_call.current_trends,
                                  STAMPS[trends_call.call])
            /\ trends_call' = [trends_call EXCEPT !.pc = "done",
                                                  !.ret = trends_call.current_trends]
    /\ UNCHANGED server_vars

----------------------------------------------------------------------------
(* 5. Data gathering (with caching) *)

\* The comparison turned round.
CacheHit_Inverted(entry, t) ==
    /\ Truthy(entry.data)
    /\ entry.timestamp # NoTime
    /\ t - entry.timestamp > DATA_TTL

\* An entry exactly DATA_TTL old still counted as valid.
CacheHit_Inclusive(entry, t) ==
    /\ Truthy(entry.data)
    /\ entry.timestamp # NoTime
    /\ t - entry.timestamp <= DATA_TTL

\* The test of get_cached_data: the entry holds data and is younger than DATA_TTL.
CacheHit(entry, t) ==
    /\ Truthy(entry.data)
    /\ entry.timestamp # NoTime
    /\ t - entry.timestamp < DATA_TTL

\* get_cached_data(key, fetch_function) at time t, where `fetch` is what the
\* fetch function does if it is called.  ret is the value returned, cache the
\* DATA_CACHE afterwards, called whether the fetch function was invoked.
get_cached_data(cache, key, fetch, t) ==
    LET entry == cache[key] IN
    IF CacheHit(entry, t)
    THEN [ret |-> entry.data, cache |-> cache, called |-> FALSE]
    ELSE IF fetch.raises
    THEN [ret |-> None, cache |-> cache, called |-> TRUE]
    ELSE [ret |-> fetch.data,
          cache |-> IF Truthy(fetch.data)
                    THEN [cache EXCEPT ![key] = [data |-> fetch.data, timestamp |-> t]]
                    ELSE cache,
          called |-> TRUE]

WeatherFallback == Weather(325, 1205, 450, 780)
AqiFallback == Aqi(1650, 3)
TrendsFallback ==
    [k \in TREND_KEYS |->
        CASE k = "dengue" -> 85 [] k = "fever" -> 60 [] k = "asthma" -> 40
          [] k = "cough" -> 30 [] k = "cold" -> 20 [] k = "loose motion" -> 15
          [] k = "vomiting" -> 10 [] k = "stomach pain" -> 25]
BaselineFallback == Baseline(12, 25, 8)

\* fetch_real_data() at time t; F[key] is what that source's fetch function
\* does if called.  The four get_cached_data calls run in the order of the
\* code, each on the cache the one before left; gw, ga, gt and gb are their
\* results.  The return statement, after the fallbacks:
fetch_return(gw, ga, gt, gb) ==
    LET weather == IF ~Truthy(gw.ret) \/ gw.ret.Monthly_Avg_Temp = 0
                   THEN WeatherFallback ELSE gw.ret
        aqi == IF ~Truthy(ga.ret) \/ ga.ret.Monthly_Avg_AQI = 0
               THEN AqiFallback ELSE ga.ret
        trends == IF ~Truthy(gt.ret) THEN TrendsFallback ELSE gt.ret
    IN [cache |-> gb.cache,
        \* int(trends.get(k, 0)) of a NaN raises ValueError
        raises |-> \E k \in TREND_KEYS : trends[k] = NaN,
        got |-> [k \in SOURCES |->
                    CASE k = "weather" -> gw.ret [] k = "aqi" -> ga.ret
                      [] k = "trends" -> gt.ret [] k = "baseline" -> gb.ret],
        called |-> [k \in SOURCES |->
                    CASE k = "weather" -> gw.called [] k = "aqi" -> ga.called
                      [] k = "trends" -> gt.called [] k = "baseline" -> gb.called],
        inputs |-> [Monthly_Avg_Temp |-> weather.Monthly_Avg_Temp,
                    Rainfall_mm |-> weather.Rainfall_mm,
                    Rainfall_Lag_2 |-> weather.Rainfall_Lag_2,
                    Monthly_Avg_Humidity |-> weather.Monthly_Avg_Humidity,
                    Monthly_Avg_AQI |-> aqi.Monthly_Avg_AQI,
                    Days_Severe_AQI |-> aqi.Days_Severe_AQI,
                    dengue |-> trends["dengue"],
                    fever |-> trends["fever"],
                    asthma |-> trends["asthma"],
                    cough |-> trends["cough"],
                    cold |-> trends["cold"],
                    loose_motion |-> trends["loose motion"],
                    vomiting |-> trends["vomiting"],
                    stomach_pain |-> trends["stomach pain"]]]

fetch_baseline(gw, ga, gt, F, t) ==
    fetch_return(gw, ga, gt, get_cached_data(gt.cache, "baseline", F["baseline"], t))

fetch_trends(gw, ga, F, t) ==
    fetch_baseline(gw, ga, get_cached_data(ga.cache, "trends", F["trends"], t), F, t)

fetch_aqi(gw, F, t) ==
    fetch_trends(gw, get_cached_data(gw.cache, "aqi", F["aqi"], t), F, t)

fetch_real_data(cache, F, t) ==
    fetch_aqi(get_cached_data(cache, "weather", F["weather"], t), F, t)

----------------------------------------------------------------------------
(* 6. Predictions: scores in tenths *)

calculate_risk_score(category, inputs) ==
    LET score ==
        CASE category = "respiratory" ->
               10
               + (IF inputs.Monthly_Avg_AQI > 1500 THEN 30
                  ELSE IF inputs.Monthly_Avg_AQI > 1000 THEN 15 ELSE 0)
               + (IF inputs.Monthly_Avg_Temp < 180 THEN 20 ELSE 0)
               + (IF inputs.cough + inputs.cold + inputs.asthma > 3 * 50 THEN 30 ELSE 0)
          [] category = "water" ->
               10
               + (IF inputs.Rainfall_mm > 1000 THEN 30 ELSE 0)
               + (IF inputs.loose_motion + inputs.vomiting + inputs.stomach_pain > 3 * 40
                  THEN 40 ELSE 0)
          [] category = "vector" ->
               10
               + (IF inputs.Monthly_Avg_Humidity > 700 THEN 20 ELSE 0)
               + (IF 250 < inputs.Monthly_Avg_Temp /\ inputs.Monthly_Avg_Temp < 340
                  THEN 20 ELSE 0)
               + (IF inputs.Rainfall_mm > 500 THEN 10 ELSE 0)
               + (IF inputs.dengue + inputs.fever > 2 * 60 THEN 40
                  ELSE IF inputs.dengue + inputs.fever > 2 * 30 THEN 20 ELSE 0)
    IN Min(score, 100)

run_ml_predictions(inputs) ==
    [Vector_Pred |-> calculate_risk_score("vector", inputs),
     Respiratory_Pred |-> calculate_risk_score("respiratory", inputs),
     Water_Pred |-> calculate_risk_score("water", inputs)]

----------------------------------------------------------------------------
(* 7. AI agent *)

\* The state dict without its "temp" item.
current_state_NoTemp(inputs, predictions) ==
    << <<"rain", inputs.Rainfall_mm>>,
       <<"aqi", inputs.Monthly_Avg_AQI>>,
       <<"vector_risk", predictions.Vector_Pred>>,
       <<"resp_risk", predictions.Respiratory_Pred>>,
       <<"water_risk", predictions.Water_Pred>> >>

\* A dict literal is the sequence of its <<key, value>> items, in insertion
\* order.  The state dict of run_agent_analysis, as the code writes it:
current_state(inputs, predictions) ==
    << <<"temp", inputs.Monthly_Avg_Temp>>,
       <<"rain", inputs.Rainfall_mm>>,
       <<"aqi", inputs.Monthly_Avg_AQI>>,
       <<"vector_risk", predictions.Vector_Pred>>,
       <<"resp_risk", predictions.Respiratory_Pred>>,
       <<"water_risk", predictions.Water_Pred>> >>

\* Python's order of the six key strings (sorted()).
SORTED_KEYS == <<"aqi", "rain", "resp_risk", "temp", "vector_risk", "water_risk">>

KeyRank(k) == CHOOSE i \in 1..Len(SORTED_KEYS) : SORTED_KEYS[i] = k

\* items with item x put before the first item whose key is greater
RECURSIVE InsertItem(_, _)
InsertItem(x, items) ==
    IF items = <<>> THEN <<x>>
    ELSE IF KeyRank(x[1]) < KeyRank(Head(items)[1]) THEN <<x>> \o items
    ELSE <<Head(items)>> \o InsertItem(x, Tail(items))

RECURSIVE SortItems(_)
SortItems(items) ==
    IF items = <<>> THEN <<>>
    ELSE InsertItem(Head(items), SortItems(Tail(items)))

\* json.dumps(d) without sort_keys: the items in insertion order.
json_dumps_Unsorted(d) == d

\* json.dumps(d, sort_keys=True): the text lists the items by ascending key.
\* Numbers print injectively, so the text is modelled by the item list.
json_dumps(d) == SortItems(d)

\* hashlib.md5(text).hexdigest(), taken to be collision-free.
md5(text) == [md5 |-> text]

current_hash(inputs, predictions) == md5(json_dumps(current_state(inputs, predictions)))

\* Item names a tool call may carry (bounded); a str is the tuple of its
\* characters.
MASKS == <<"m", "a", "s", "k", "s">>
MOSQUITO_NETS == <<"M", "o", "s", "q", "u", "i", "t", "o", " ", "N", "e", "t", "s">>

\* An action item of a plan, and the tool call it carries.
ToolCall(tool, args) == [tool |-> tool, args |-> args]

ActionItem(id, title, type, payload) ==
    [id |-> id, title |-> title, type |-> type, status |-> "PENDING",
     function_payload |-> payload]

\* Plans the language model may answer with (bounded): ids 1 and 2, and one
\* in which two actions carry the same id.
PlanA ==
    [summary |-> "Respiratory surge expected",
     actions |-> << ActionItem(1, "Alert staff", "COMMUNICATION",
                               ToolCall("ALERT_EMAIL", [subject |-> "Surge"])),
                    ActionItem(2, "Order masks", "INVENTORY",
                               ToolCall("GENERATE_PO", [item |-> MASKS, quantity |-> 100])) >>]
PlanB ==
    [summary |-> "Vector risk rising",
     actions |-> << ActionItem(1, "Review protocol", "PROTOCOL",
                               ToolCall("GENERAL_LOG", [action |-> "review"])),
                    ActionItem(1, "Order nets", "INVENTORY",
                               ToolCall("GENERATE_PO", [item |-> MOSQUITO_NETS, quantity |-> 50])) >>]

\* What one llm.invoke + json.loads can do: raise (the call fails or the text
\* is not JSON), or return the parsed value.
LlmAnswers == {Raise, Return(PlanA), Return(PlanB), Return(EmptyDict)}

NoKeyPlan == [summary |-> "No API Key.", actions |-> <<>>]
FallbackPlan == [summary |-> "System running in manual fallback mode.", actions |-> <<>>]

EmptyAgentCache == [last_hash |-> None, response |-> None, timestamp |-> NoTime]

\* The comparison turned round.
AgentCacheHit_Inverted(cache, h, t) ==
    /\ Truthy(cache.response)
    /\ cache.last_hash = h
    /\ cache.timestamp # NoTime
    /\ t - cache.timestamp > AGENT_TTL

AgentCacheHit(cache, h, t) ==
    /\ Truthy(cache.response)
    /\ cache.last_hash = h
    /\ cache.timestamp # NoTime
    /\ t - cache.timestamp < AGENT_TTL

\* The except branch storing the plan it returns.
run_agent_analysis_StoreFallback(cache, key_set, inputs, predictions, llm, t) ==
    LET h == current_hash(inputs, predictions) IN
    IF ~key_set
    THEN [ret |-> NoKeyPlan, cache |-> cache, called |-> FALSE, hash |-> None]
    ELSE IF AgentCacheHit(cache, h, t)
    THEN [ret |-> cache.response, cache |-> cache, called |-> FALSE, hash |-> h]
    ELSE IF llm.raises
    THEN [ret |-> FallbackPlan,
          cache |-> [last_hash |-> h, response |-> FallbackPlan, timestamp |-> t],
          called |-> TRUE, hash |-> h]
    ELSE [ret |-> llm.data,
          cache |-> [last_hash |-> h, response |-> llm.data, timestamp |-> t],
          called |-> TRUE, hash |-> h]

\* The try branch storing the plan and the time, but not the hash.
run_agent_analysis_KeepHash(cache, key_set, inputs, predictions, llm, t) ==
    LET h == current_hash(inputs, predictions) IN
    IF ~key_set
    THEN [ret |-> NoKeyPlan, cache |-> cache, called |-> FALSE, hash |-> None]
    ELSE IF AgentCacheHit(cache, h, t)
    THEN [ret |-> cache.response, cache |-> cache, called |-> FALSE, hash |-> h]
    ELSE IF llm.raises
    THEN [ret |-> FallbackPlan, cache |-> cache, called |-> TRUE, hash |-> h]
    ELSE [ret |-> llm.data,
          cache |-> [last_hash |-> cache.last_hash, response |-> llm.data, timestamp |-> t],
          called |-> TRUE, hash |-> h]

\* The try branch storing the hash and the plan, but not the time.
run_agent_analysis_KeepTime(cache, key_set, inputs, predictions, llm, t) ==
    LET h == current_hash(inputs, predictions) IN
    IF ~key_set
    THEN [ret |-> NoKeyPlan, cache |-> cache, called |-> FALSE, hash |-> None]
    ELSE IF AgentCacheHit(cache, h, t)
    THEN [ret |-> cache.response, cache |-> cache, called |-> FALSE, hash |-> h]
    ELSE IF llm.raises
    THEN [ret |-> FallbackPlan, cache |-> cache, called |-> TRUE, hash |-> h]
    ELSE [ret |-> llm.data,
          cache |-> [last_hash |-> h, response |-> llm.data, timestamp |-> cache.timestamp],
          called |-> TRUE, hash |-> h]

\* run_agent_analysis(inputs, predictions) at time t; llm is what the language
\* model does if it is invoked.  ret is the plan returned, cache the
\* AGENT_CACHE afterwards, called whether the model was invoked.
run_agent_analysis(cache, key_set, inputs, predictions, llm, t) ==
    LET h == current_hash(inputs, predictions) IN
    IF ~key_set
    THEN [ret |-> NoKeyPlan, cache |-> cache, called |-> FALSE, hash |-> None]
    ELSE IF AgentCacheHit(cache, h, t)
    THEN [ret |-> cache.response, cache |-> cache, called |-> FALSE, hash |-> h]
    ELSE IF llm.raises
    THEN [ret |-> FallbackPlan, cache |-> cache, called |-> TRUE, hash |-> h]
    ELSE [ret |-> llm.data,
          cache |-> [last_hash |-> h, response |-> llm.data, timestamp |-> t],
          called |-> TRUE, hash |-> h]

----------------------------------------------------------------------------
(* 3. Global state *)

\* A str is the tuple of its characters.
N95_MASKS == <<"N", "9", "5", " ", "M", "a", "s", "k", "s">>
OXYGEN_CYLINDERS == <<"O", "x", "y", "g", "e", "n", " ", "C", "y", "l", "i", "n", "d", "e", "r", "s", " ", "(", "T", "y", "p", "e", " ", "D", ")">>
ICU_BEDS == <<"I", "C", "U", " ", "B", "e", "d", "s", " ", "A", "v", "a", "i", "l", "a", "b", "l", "e">>
IV_FLUIDS == <<"I", "V", " ", "F", "l", "u", "i", "d", "s", " ", "(", "R", "L", " ", "5", "0", "0", "m", "l", ")">>
DENGUE_KITS == <<"D", "e", "n", "g", "u", "e", " ", "I", "g", "G", " ", "K", "i", "t", "s">>
PARACETAMOL == <<"P", "a", "r", "a", "c", "e", "t", "a", "m", "o", "l", " ", "I", "n", "f", "u", "s", "i", "o", "n">>

\* A dict keeps insertion order: the inventory is the sequence of its
\* <<key, count>> items.
INVENTORY == << <<N95_MASKS, 1240>>,
                <<OXYGEN_CYLINDERS, 45>>,
                <<ICU_BEDS, 8>>,
                <<IV_FLUIDS, 120>>,
                <<DENGUE_KITS, 50>>,
                <<PARACETAMOL, 85>> >>

EmptyDataCache == [k \in SOURCES |-> [data |-> None, timestamp |-> NoTime]]

NoFetch == [at |-> NoTime, data |-> None]

InitServer ==
    /\ now = 0
    /\ GROQ_API_KEY \in BOOLEAN
    /\ DATA_CACHE = EmptyDataCache
    /\ AGENT_CACHE = EmptyAgentCache
    /\ HOSPITAL_STATE = [inventory |-> INVENTORY, system_logs |-> <<>>]
    /\ background_tasks = <<>>
    /\ po_count = 0
    /\ orders = <<>>
    /\ fetch_log = [k \in SOURCES |-> NoFetch]
    /\ agent_log = {}
    /\ last = [op |-> "start"]

\* The server at its start, before any call of the trends fetcher, in a
\* working directory without a trends log.
Init ==
    /\ InitServer
    /\ LOG_FILE = NoFile
    /\ trends_call = NoCall

----------------------------------------------------------------------------
(* The clock *)

Tick(step) ==
    /\ now + step <= MaxTicks * step
    /\ now' = now + step
    /\ UNCHANGED <<GROQ_API_KEY, DATA_CACHE, AGENT_CACHE, HOSPITAL_STATE,
                   background_tasks, po_count, orders, fetch_log, agent_log,
                   LOG_FILE, trends_call, last>>

----------------------------------------------------------------------------
(* 8. API endpoints: POST /system/scan *)

\* What a get_cached_data call did, as seen from outside.
FetchOutcome(called, fetch) ==
    IF ~called THEN "hit"
    ELSE IF fetch.raises THEN "raise"
    ELSE IF fetch.data = None THEN "none"
    ELSE IF fetch.data \in {WeatherZeros, AqiZeros, TrendsZeros, BaselineZeros}
    THEN "zeros"
    ELSE "reading"

\* How old the entry a get_cached_data call found was (NoTime: there was none).
EntryAge(entry, t) ==
    IF entry.timestamp = NoTime THEN NoTime ELSE t - entry.timestamp

\* The fields of the scan response that describe the situation: the
\* environment block and the three scores.
RiskState(inputs, predictions) ==
    [temp |-> inputs.Monthly_Avg_Temp,
     rain |-> inputs.Rainfall_mm,
     aqi |-> inputs.Monthly_Avg_AQI,
     humidity |-> inputs.Monthly_Avg_Humidity,
     vector |-> predictions.Vector_Pred,
     respiratory |-> predictions.Respiratory_Pred,
     water |-> predictions.Water_Pred]

\* History of the language model's invocations: for each hash, the latest
\* invocation made for it.  state is the situation it was made for, at the
\* time, result what came of it ("failed": the try block raised; "falsy":
\* an empty value was stored; "stored": a plan was stored), replaced whether
\* a later invocation for another hash has stored a value, crossed whether a
\* later invocation for another hash has been made at all.
Generation(log, h, state, llm, t) ==
    {[g EXCEPT !.replaced = @ \/ ~llm.raises, !.crossed = TRUE] :
         g \in {x \in log : x.hash # h}}
        \cup {[hash |-> h, state |-> state, at |-> t,
                result |-> IF llm.raises THEN "failed"
                           ELSE IF Truthy(llm.data) THEN "stored" ELSE "falsy",
                replaced |-> FALSE, crossed |-> FALSE]}

\* The invocation the history holds for hash h, None if there is none.
Prior(log, h) ==
    IF \E g \in log : g.hash = h THEN CHOOSE g \in log : g.hash = h ELSE None

\* run_scan(request): F[key] is what each fetch function does if called, llm
\* what the language model does if invoked.  d is what fetch_real_data did,
\* preds the predictions, a what run_agent_analysis did.
scan_return(F, llm, d, preds, a) ==
    /\ DATA_CACHE' = d.cache
    /\ AGENT_CACHE' = a.cache
    /\ fetch_log' = [k \in SOURCES |->
                        IF d.called[k]
                        THEN [at |-> now, data |-> d.got[k]]
                        ELSE fetch_log[k]]
    /\ agent_log' = IF a.called
                    THEN Generation(agent_log, a.hash, RiskState(d.inputs, preds), llm, now)
                    ELSE agent_log
    /\ last' = [op |-> "scan", at |-> now,
                outcome |-> [k \in SOURCES |-> FetchOutcome(d.called[k], F[k])],
                got |-> d.got,
                age |-> [k \in SOURCES |-> EntryAge(DATA_CACHE[k], now)],
                state |-> RiskState(d.inputs, preds),
                hash |-> a.hash,
                found |-> AGENT_CACHE,
                prior |-> Prior(agent_log, a.hash),
                generated |-> a.called,
                failed |-> a.called /\ llm.raises,
                success |-> TRUE,
                ai_agent |-> a.ret]
    /\ UNCHANGED <<LOG_FILE, trends_call>>
    /\ UNCHANGED <<now, GROQ_API_KEY, HOSPITAL_STATE, background_tasks, po_count, orders>>

\* The except clause turned into a result the caller can read.
ScanFault_Soft(detail) == [status |-> 200, success |-> FALSE, message |-> detail]

\* raise HTTPException(status_code=500, detail=str(e))
ScanFault(detail) == [status |-> 500, detail |-> detail]

\* run_scan when fetch_real_data raised in its return statement: the four
\* get_cached_data calls have run, the agent has not.
scan_raise(F, d) ==
    /\ DATA_CACHE' = d.cache
    /\ fetch_log' = [k \in SOURCES |->
                        IF d.called[k]
                        THEN [at |-> now, data |-> d.got[k]]
                        ELSE fetch_log[k]]
    /\ last' = [op |-> "scan_raised", at |-> now,
                outcome |-> [k \in SOURCES |-> FetchOutcome(d.called[k], F[k])],
                got |-> d.got,
                response |-> ScanFault("ValueError")]
    /\ UNCHANGED <<LOG_FILE, trends_call>>
    /\ UNCHANGED <<now, GROQ_API_KEY, AGENT_CACHE, HOSPITAL_STATE, background_tasks,
                   po_count, orders, agent_log>>

scan_agent(F, llm, d, preds) ==
    scan_return(F, llm, d, preds,
                run_agent_analysis(AGENT_CACHE, GROQ_API_KEY, d.inputs, preds, llm, now))

scan_predict(F, llm, d) ==
    \/ d.raises /\ scan_raise(F, d)
    \/ ~d.raises /\ scan_agent(F, llm, d, run_ml_predictions(d.inputs))

run_scan(F, llm) == scan_predict(F, llm, fetch_real_data(DATA_CACHE, F, now))

----------------------------------------------------------------------------
(* 4. Agent tools *)

\* d.get(k, default)
Get(d, k, default) == IF k \in DOMAIN d THEN d[k] ELSE default

UPPER == <<"A", "B", "C", "D", "E", "F", "G", "H", "I", "J", "K", "L", "M",
           "N", "O", "P", "Q", "R", "S", "T", "U", "V", "W", "X", "Y", "Z">>
LOWER == <<"a", "b", "c", "d", "e", "f", "g", "h", "i", "j", "k", "l", "m",
           "n", "o", "p", "q", "r", "s", "t", "u", "v", "w", "x", "y", "z">>

\* str.lower(): the lower-case letter of each upper-case letter
ToLower ==
    [c \in {UPPER[i] : i \in 1..Len(UPPER)} |->
        LOWER[CHOOSE i \in 1..Len(UPPER) : UPPER[i] = c]]

LowerChar(c) == IF c \in DOMAIN ToLower THEN ToLower[c] ELSE c
Lower(str) == [i \in 1..Len(str) |-> LowerChar(str[i])]

\* str.split(" ")[0]: the characters before the first space
FirstToken(str) ==
    IF \E i \in 1..Len(str) : str[i] = " "
    THEN SubSeq(str, 1, (CHOOSE i \in 1..Len(str) :
                            str[i] = " " /\ \A j \in 1..(i - 1) : str[j] # " ") - 1)
    ELSE str

\* a in b, for two str (each evaluated once)
Contains(b, a) ==
    \E whole \in {b}, part \in {a} :
        \E i \in 1..(Len(whole) - Len(part) + 1) :
            SubSeq(whole, i, i + Len(part) - 1) = part

\* The least and the greatest element of a set of indices, 0 for none.
FirstOf(hits) ==
    CHOOSE i \in hits \cup {0} : IF hits = {} THEN i = 0 ELSE i \in hits /\ \A j \in hits : i <= j
LastOf(hits) ==
    CHOOSE i \in hits \cup {0} : IF hits = {} THEN i = 0 ELSE i \in hits /\ \A j \in hits : i >= j

TargetKey_LastMatch(inventory, item) ==
    CHOOSE r \in {LastOf({i \in 1..Len(inventory) : Contains(Lower(inventory[i][1]), token)}) :
                     token \in {Lower(FirstToken(item))}} :
        TRUE

\* The key delayed_inventory_update settles on: the index of the first
\* inventory key that contains the item's first token, 0 when there is none.
TargetKey(inventory, item) ==
    CHOOSE r \in {FirstOf({i \in 1..Len(inventory) : Contains(Lower(inventory[i][1]), token)}) :
                     token \in {Lower(FirstToken(item))}} :
        TRUE

\* d[key] = value: an existing key keeps its place and takes the value, a
\* new key goes to the end.
\* A new key takes the place of the oldest one.
SetItem_Evict(d, key, value) ==
    IF \E i \in 1..Len(d) : d[i][1] = key
    THEN [i \in 1..Len(d) |-> IF d[i][1] = key THEN <<key, value>> ELSE d[i]]
    ELSE Append(Tail(d), <<key, value>>)

SetItem(d, key, value) ==
    IF \E i \in 1..Len(d) : d[i][1] = key
    THEN [i \in 1..Len(d) |-> IF d[i][1] = key THEN <<key, value>> ELSE d[i]]
    ELSE Append(d, <<key, value>>)

\* The log kept to its latest entry.
delayed_inventory_update_Rotate(state, item, qty, t) ==
    CHOOSE r \in
        {IF i # 0 /\ state.inventory[i][1] # <<>>
         THEN [inventory |-> [state.inventory EXCEPT ![i][2] = @ + qty],
               system_logs |-> << [at |-> t, text |-> "INVENTORY UPDATE: Received",
                                   qty |-> qty, key |-> state.inventory[i][1]] >>]
         ELSE [inventory |-> SetItem(state.inventory, item, qty),
               system_logs |-> state.system_logs] :
         i \in {TargetKey(state.inventory, item)}} : TRUE

delayed_inventory_update_StaleRead(state, item, qty, t) ==
    CHOOSE r \in
        {IF i # 0 /\ state.inventory[i][1] # <<>>
         THEN [inventory |-> [state.inventory EXCEPT
                                 ![i][2] = (IF i <= Len(INVENTORY) THEN INVENTORY[i][2] ELSE 0) + qty],
               system_logs |-> Append(state.system_logs,
                                      [at |-> t, text |-> "INVENTORY UPDATE: Received",
                                       qty |-> qty, key |-> state.inventory[i][1]])]
         ELSE [inventory |-> SetItem(state.inventory, item, qty),
               system_logs |-> state.system_logs] :
         i \in {TargetKey(state.inventory, item)}} :
        TRUE

delayed_inventory_update_TokenKey(state, item, qty, t) ==
    CHOOSE r \in
        {IF i # 0 /\ state.inventory[i][1] # <<>>
         THEN [inventory |-> [state.inventory EXCEPT ![i][2] = @ + qty],
               system_logs |-> Append(state.system_logs,
                                      [at |-> t, text |-> "INVENTORY UPDATE: Received",
                                       qty |-> qty, key |-> state.inventory[i][1]])]
         ELSE [inventory |-> SetItem(state.inventory, FirstToken(item), qty),
               system_logs |-> state.system_logs] :
         i \in {TargetKey(state.inventory, item)}} :
        TRUE

\* The part of delayed_inventory_update after the sleep.  `if target_key:`
\* is false for no match and for a matched key that is the empty str.
delayed_inventory_update(state, item, qty, t) ==
    CHOOSE r \in
        {IF i # 0 /\ state.inventory[i][1] # <<>>
         THEN [inventory |-> [state.inventory EXCEPT ![i][2] = @ + qty],
               system_logs |-> Append(state.system_logs,
                                      [at |-> t, text |-> "INVENTORY UPDATE: Received",
                                       qty |-> qty, key |-> state.inventory[i][1]])]
         ELSE [inventory |-> SetItem(state.inventory, item, qty),
               system_logs |-> state.system_logs] :
         i \in {TargetKey(state.inventory, item)}} :
        TRUE

----------------------------------------------------------------------------
(* 8. API endpoints: POST /system/execute_action *)

\* payload.get("tool") of a payload without the key
NoTool == "None"

\* The loop without its break: every action with the id is marked.
MarkExecuted_All(actions, action_id) ==
    [i \in 1..Len(actions) |->
        IF actions[i].id = action_id
        THEN [actions[i] EXCEPT !.status = "EXECUTED"] ELSE actions[i]]

MarkExecuted_Toggle(actions, action_id) ==
    LET hits == {i \in 1..Len(actions) : actions[i].id = action_id} IN
    IF hits = {} THEN actions
    ELSE [actions EXCEPT ![CHOOSE i \in hits : \A j \in hits : i <= j].status =
                             IF @ = "EXECUTED" THEN "PENDING" ELSE "EXECUTED"]

MarkExecuted_Default(actions, action_id) ==
    LET hits == {i \in 1..Len(actions) : actions[i].id = action_id} IN
    IF hits = {} THEN [i \in 1..Len(actions) |->
                          IF i = 1 THEN [actions[i] EXCEPT !.status = "EXECUTED"] ELSE actions[i]]
    ELSE [actions EXCEPT ![CHOOSE i \in hits : \A j \in hits : i <= j].status = "EXECUTED"]

\* The loop of step 1: the first action whose id is action_id is marked.
MarkExecuted(actions, action_id) ==
    LET hits == {i \in 1..Len(actions) : actions[i].id = action_id} IN
    IF hits = {} THEN actions
    ELSE [actions EXCEPT ![CHOOSE i \in hits : \A j \in hits : i <= j].status = "EXECUTED"]

\* Step 1 of execute_action on AGENT_CACHE["response"].
UpdateStatus(response, action_id) ==
    IF Truthy(response) /\ "actions" \in DOMAIN response
    THEN [response EXCEPT !.actions = MarkExecuted(@, action_id)]
    ELSE response

\* The default item left blank.
MEDICAL_SUPPLIES_Blank == <<>>

\* args.get("item", "Medical Supplies")
MEDICAL_SUPPLIES == <<"M", "e", "d", "i", "c", "a", "l", " ", "S", "u", "p", "p", "l", "i", "e", "s">>

ActionRequest(action_id, title, type, payload) ==
    [action_id |-> action_id, title |-> title, type |-> type,
     function_payload |-> payload]

\* Requests a client may send (bounded): those that end in the fallback,
\* those that send an alert, those that order.
LogRequests ==
    {ActionRequest(1, "Review isolation protocol", "PROTOCOL", None),
     ActionRequest(1, "Review isolation protocol", "PROTOCOL",
                   ToolCall("GENERAL_LOG", [action |-> "note"])),
     ActionRequest(1, "Review isolation protocol", "PROTOCOL",
                   ToolCall("NOTIFY_SMS", EmptyDict)),
     ActionRequest(1, "Restock N95 masks", "INVENTORY", None),
     ActionRequest(1, "Restock N95 masks", "RESOURCE", None)}
AlertRequests ==
    {ActionRequest(1, "Alert staff", "COMMUNICATION",
                   ToolCall("ALERT_EMAIL", [subject |-> "Surge", body |-> "Check wards"]))}
OrderRequests ==
    {ActionRequest(1, "Order masks", "INVENTORY",
                   ToolCall("GENERATE_PO", [item |-> MASKS, quantity |-> 100])),
     ActionRequest(1, "Order nets", "INVENTORY",
                   ToolCall("GENERATE_PO", [item |-> MOSQUITO_NETS, quantity |-> 50])),
     ActionRequest(1, "Order supplies", "INVENTORY", ToolCall("GENERATE_PO", EmptyDict)),
     ActionRequest(1, "Order item", "INVENTORY",
                   ToolCall("GENERATE_PO", [item |-> <<>>, quantity |-> 5]))}

\* random.uniform(10.0, 150.0) and random.randint(10000, 99999), at their ends
UnitPrices == {10, 150}
PoNumbers == {10000, 99999}

\* Requests whose tool call carries args that are no JSON object: a JSON
\* array, null.  function_payload is declared `dict | None`, so that the
\* request model accepts any value under its keys.
JsonArray(items) == [array |-> items]

MalformedRequests ==
    {ActionRequest(1, "Alert staff", "COMMUNICATION",
                   ToolCall("ALERT_EMAIL", JsonArray(<<"Surge">>))),
     ActionRequest(1, "Order masks", "INVENTORY", ToolCall("GENERATE_PO", None)),
     ActionRequest(1, "Note", "COMMUNICATION",
                   ToolCall("GENERAL_LOG", JsonArray(<<"note">>)))}

\* hasattr(v, "get"): v is a dict
IsMapping(v) == v # None /\ "array" \notin DOMAIN v

Ok(message) == [status |-> 200, success |-> TRUE, message |-> message]

\* An exception that leaves the handler: the framework answers 500 and the
\* caller gets no result.
Raised(exception) == [status |-> 500, raised |-> exception]

\* What the ALERT_EMAIL branch returns after send_email_real.
AlertResult_Strict(mail_ok) ==
    [status |-> 200, success |-> mail_ok,
     message |-> IF mail_ok THEN [text |-> "HTML Alert sent"]
                 ELSE [text |-> "Email Failed (Check Server Logs)"]]

AlertResult(mail_ok) ==
    Ok(IF mail_ok THEN [text |-> "HTML Alert sent"]
       ELSE [text |-> "Email Failed (Check Server Logs)"])

\* The order reported as failed when the file or the invoice failed.
OrderResult_Strict(file_ok, mail_ok, po, total_cost) ==
    [status |-> 200, success |-> file_ok /\ mail_ok,
     message |-> [text |-> "PO Emailed. Stock updates in 10s.",
                  po_number |-> po, total_cost |-> total_cost]]

\* What the GENERATE_PO branch returns: the values generate_purchase_order_file
\* and send_email_real returned are discarded.
OrderResult(file_ok, mail_ok, po, total_cost) ==
    Ok([text |-> "PO Emailed. Stock updates in 10s.",
        po_number |-> po, total_cost |-> total_cost])

\* execute_action(request, background_tasks).  mail_ok and file_ok are what
\* send_email_real and generate_purchase_order_file return if called,
\* unit_price and po what the random module draws.
execute_action(request, mail_ok, file_ok, unit_price, po) ==
    LET payload == IF Truthy(request.function_payload)
                   THEN request.function_payload ELSE EmptyDict
        tool == Get(payload, "tool", NoTool)
        args == Get(payload, "args", EmptyDict)
        item == Get(args, "item", MEDICAL_SUPPLIES)
        qty == Get(args, "quantity", 100)
        total_cost == unit_price * qty
        before == [inventory |-> HOSPITAL_STATE.inventory,
                   logs |-> Len(HOSPITAL_STATE.system_logs),
                   tasks |-> Len(background_tasks),
                   response |-> AGENT_CACHE.response]
        \* args.get(...) of args without a get method
        raises == tool \in {"ALERT_EMAIL", "GENERATE_PO"} /\ ~IsMapping(args)
    IN
    /\ AGENT_CACHE' = [AGENT_CACHE EXCEPT !.response = UpdateStatus(@, request.action_id)]
    /\ CASE raises ->
              /\ last' = [op |-> "execute", at |-> now, request |-> request,
                          before |-> before,
                          effects |-> <<>>,
                          response |-> Raised("AttributeError")]
              /\ UNCHANGED <<background_tasks, po_count, orders>>
         [] tool = "ALERT_EMAIL" /\ ~raises ->
              /\ last' = [op |-> "execute", at |-> now, request |-> request,
                          before |-> before,
                          effects |-> << [kind |-> "email", ok |-> mail_ok,
                                          subject |-> Get(args, "subject", "Automated Alert")] >>,
                          response |-> AlertResult(mail_ok)]
              /\ UNCHANGED <<background_tasks, po_count, orders>>
         [] tool = "GENERATE_PO" /\ ~raises ->
              /\ po_count < MaxOrders
              /\ po_count' = po_count + 1
              /\ background_tasks' =
                     Append(background_tasks,
                            [id |-> Len(orders) + 1, item |-> item, qty |-> qty,
                             ready_at |-> now + SHIP_DELAY])
              /\ orders' = Append(orders, [item |-> item, qty |-> qty, at |-> now])
              /\ last' = [op |-> "execute", at |-> now, request |-> request,
                          before |-> before,
                          effects |-> << [kind |-> "po_file", ok |-> file_ok, po_number |-> po,
                                          item |-> item, quantity |-> qty,
                                          total_cost |-> total_cost],
                                         [kind |-> "email", ok |-> mail_ok, subject |-> "Invoice"],
                                         [kind |-> "task", item |-> item, qty |-> qty] >>,
                          response |-> OrderResult(file_ok, mail_ok, po, total_cost)]
         [] OTHER ->
              /\ last' = [op |-> "execute", at |-> now, request |-> request,
                          before |-> before,
                          effects |-> <<>>,
                          response |-> Ok([text |-> "logged in system registry",
                                           title |-> request.title])]
              /\ UNCHANGED <<background_tasks, po_count, orders>>
    /\ UNCHANGED <<LOG_FILE, trends_call>>
    /\ UNCHANGED <<now, GROQ_API_KEY, DATA_CACHE, HOSPITAL_STATE, fetch_log, agent_log>>

Deliver_NoSleep(i) ==
    /\ i \in 1..Len(background_tasks)
    /\ HOSPITAL_STATE' = delayed_inventory_update(HOSPITAL_STATE, background_tasks[i].item,
                                                  background_tasks[i].qty, now)
    /\ background_tasks' = [j \in 1..(Len(background_tasks) - 1) |->
                               IF j < i THEN background_tasks[j] ELSE background_tasks[j + 1]]
    /\ last' = [op |-> "deliver", at |-> now, task |-> background_tasks[i],
                before |-> [inventory |-> HOSPITAL_STATE.inventory,
                            logs |-> Len(HOSPITAL_STATE.system_logs)]]
    /\ UNCHANGED <<LOG_FILE, trends_call>>
    /\ UNCHANGED <<now, GROQ_API_KEY, DATA_CACHE, AGENT_CACHE, po_count, orders,
                   fetch_log, agent_log>>

Deliver_KeepTask(i) ==
    /\ i \in 1..Len(background_tasks)
    /\ background_tasks[i].ready_at <= now
    /\ HOSPITAL_STATE' = delayed_inventory_update(HOSPITAL_STATE, background_tasks[i].item,
                                                  background_tasks[i].qty, now)
    /\ background_tasks' = background_tasks
    /\ last' = [op |-> "deliver", at |-> now, task |-> background_tasks[i],
                before |-> [inventory |-> HOSPITAL_STATE.inventory,
                            logs |-> Len(HOSPITAL_STATE.system_logs)]]
    /\ UNCHANGED <<LOG_FILE, trends_call>>
    /\ UNCHANGED <<now, GROQ_API_KEY, DATA_CACHE, AGENT_CACHE, po_count, orders,
                   fetch_log, agent_log>>

\* A deferred task whose sleep is over runs to its end.
Deliver(i) ==
    /\ i \in 1..Len(background_tasks)
    /\ background_tasks[i].ready_at <= now
    /\ HOSPITAL_STATE' = delayed_inventory_update(HOSPITAL_STATE, background_tasks[i].item,
                                                  background_tasks[i].qty, now)
    /\ background_tasks' = [j \in 1..(Len(background_tasks) - 1) |->
                               IF j < i THEN background_tasks[j] ELSE background_tasks[j + 1]]
    /\ last' = [op |-> "deliver", at |-> now, task |-> background_tasks[i],
                before |-> [inventory |-> HOSPITAL_STATE.inventory,
                            logs |-> Len(HOSPITAL_STATE.system_logs)]]
    /\ UNCHANGED <<LOG_FILE, trends_call>>
    /\ UNCHANGED <<now, GROQ_API_KEY, DATA_CACHE, AGENT_CACHE, po_count, orders,
                   fetch_log, agent_log>>

----------------------------------------------------------------------------
(* Specifications *)

\* Every way out of each fetch function: a reading, the zeros it returns on
\* an API error, None (get_monthly_baseline without data for the month), an
\* exception that escapes it.
SourceFetches ==
    [weather : {Return(Weather1), Return(WeatherZeros)},
     aqi : {Return(Aqi1), Return(AqiZeros)},
     trends : {Return(Trends1), Return(TrendsZeros), Raise},
     baseline : {Return(Baseline1), Return(None), Raise}]

\* The source cache under every fetcher behaviour, in a deployment without
\* GROQ_API_KEY (run_agent_analysis returns before it reads AGENT_CACHE).
InitSource == Init /\ GROQ_API_KEY = FALSE

ScanSource == \E F \in SourceFetches : run_scan(F, Raise)

TickCache == Tick(CacheTick)

NextSource == TickCache \/ ScanSource

SpecSource == InitSource /\ [][NextSource]_vars

\* Scans whose fetch functions fail in every way: an exception, or a trends
\* reading from a damaged CSV backup.
FaultFetches ==
    [weather : {Return(Weather1), Return(WeatherZeros), Raise},
     aqi : {Return(Aqi1), Raise},
     trends : {Return(Trends1), Return(TrendsNaN), Raise},
     baseline : {Return(Baseline1), Raise}]

ScanFaulty == \E F \in FaultFetches : run_scan(F, Raise)

NextFault == TickCache \/ ScanFaulty

SpecFault == InitSource /\ [][NextFault]_vars

\* The trends fetcher on its own thread: calls of get_current_month_trends
\* against any API behaviour and any CSV file.  A call that has started keeps
\* running: its attempts and its last step are taken.
InitTrends ==
    /\ InitServer
    /\ GROQ_API_KEY = FALSE
    /\ LOG_FILE \in LogFiles
    /\ trends_call = NoCall

TrendsAttempt == \E outcome \in ApiOutcomes : trends_attempt(outcome)

NextTrends == trends_start \/ TrendsAttempt \/ trends_result

SpecTrends ==
    InitTrends /\ [][NextTrends]_vars /\ WF_vars(TrendsAttempt) /\ WF_vars(trends_result)

\* The decision cache: a deployment with GROQ_API_KEY set, where the weather
\* reading may change or its fetch fail, and the language model may answer
\* anything.
AgentFetches ==
    [weather : {Return(Weather1), Return(Weather2), Return(Weather3), Raise},
     aqi : {Return(Aqi1)},
     trends : {Return(Trends1)},
     baseline : {Raise}]

AgentAnswers == {Raise, Return(PlanA), Return(EmptyDict)}

InitAgent == Init /\ GROQ_API_KEY = TRUE

ScanAgent == \E F \in AgentFetches, llm \in AgentAnswers : run_scan(F, llm)

NextAgent == TickCache \/ ScanAgent

SpecAgent == InitAgent /\ [][NextAgent]_vars

\* The dispatcher on a cached plan: scans that cache one of two plans, and
\* calls for the ids 1 to 3 that carry no tool call, a log or an alert.
PlanFetch ==
    [weather |-> Return(Weather1), aqi |-> Return(Aqi1),
     trends |-> Return(Trends1), baseline |-> Raise]

PlanAnswers == {Return(PlanA), Return(PlanB)}

PlanRequests ==
    {ActionRequest(id, "Review protocol", "PROTOCOL", None) : id \in {1, 2, 3}}
        \cup {ActionRequest(id, "Review protocol", "PROTOCOL",
                            ToolCall("GENERAL_LOG", [action |-> "review"])) : id \in {1, 2, 3}}
        \cup {ActionRequest(id, "Alert staff", "COMMUNICATION",
                            ToolCall("ALERT_EMAIL", [subject |-> "Surge"])) : id \in {1, 2, 3}}

ScanPlan == \E llm \in PlanAnswers : run_scan(PlanFetch, llm)

ExecutePlan ==
    \E request \in PlanRequests, mail_ok \in BOOLEAN :
        execute_action(request, mail_ok, FALSE, 10, 10000)

NextPlan == TickCache \/ ScanPlan \/ ExecutePlan

SpecPlan == InitAgent /\ [][NextPlan]_vars

\* The dispatcher and the deferred tasks, with no plan cached, under any
\* request the request model lets through.
ShipTick == SHIP_DELAY \div 2

TickShip == Tick(ShipTick)

\* Requests that end in the fallback, that send an alert, that order.
ExecuteLog ==
    \E request \in LogRequests :
        execute_action(request, FALSE, FALSE, 10, 10000)

ExecuteAlert ==
    \E request \in AlertRequests, mail_ok \in BOOLEAN :
        execute_action(request, mail_ok, FALSE, 10, 10000)

ExecuteOrder ==
    \E request \in OrderRequests, mail_ok \in BOOLEAN, file_ok \in BOOLEAN,
       unit_price \in UnitPrices, po \in PoNumbers :
        execute_action(request, mail_ok, file_ok, unit_price, po)

ExecuteMalformed ==
    \E request \in MalformedRequests :
        execute_action(request, FALSE, FALSE, 10, 10000)

DeliverAny == \E i \in 1..Len(background_tasks) : Deliver(i)

NextExec ==
    TickShip \/ ExecuteLog \/ ExecuteAlert \/ ExecuteOrder \/ ExecuteMalformed \/ DeliverAny

SpecExec == InitSource /\ [][NextExec]_vars

\* The purchase orders and their deferred tasks while the server stays up:
\* the clock advances, and the event loop resumes a task whose sleep is over.
\* Orders are placed while the clock of the model can still reach the end
\* of their delay.
ShipRequests == {request \in OrderRequests : request.function_payload.args # EmptyDict}

ExecuteOrderInTime ==
    /\ now + SHIP_DELAY <= MaxTicks * ShipTick
    /\ \E request \in ShipRequests : execute_action(request, TRUE, TRUE, 10, 10000)

NextShip == TickShip \/ ExecuteOrderInTime \/ DeliverAny

SpecShip == InitSource /\ [][NextShip]_vars /\ WF_vars(TickShip) /\ WF_vars(DeliverAny)

\* Tool calls with args left out, wholly or in part, next to a complete one,
\* while the file system and the mail server work or fail.
DefaultedRequests ==
    {ActionRequest(1, "Order masks", "INVENTORY",
                   ToolCall("GENERATE_PO", [item |-> MASKS, quantity |-> 100])),
     ActionRequest(1, "Order supplies", "INVENTORY", [tool |-> "GENERATE_PO"]),
     ActionRequest(1, "Order supplies", "INVENTORY", ToolCall("GENERATE_PO", EmptyDict)),
     ActionRequest(1, "Order masks", "INVENTORY",
                   ToolCall("GENERATE_PO", [item |-> MASKS])),
     ActionRequest(1, "Order fifty", "INVENTORY",
                   ToolCall("GENERATE_PO", [quantity |-> 50])),
     ActionRequest(1, "Alert staff", "COMMUNICATION", [tool |-> "ALERT_EMAIL"])}

ExecuteDefaulted ==
    /\ now + SHIP_DELAY <= MaxTicks * ShipTick
    /\ \E request \in DefaultedRequests, mail_ok \in BOOLEAN, file_ok \in BOOLEAN :
           execute_action(request, mail_ok, file_ok, 10, 10000)

NextOrder == TickShip \/ ExecuteDefaulted \/ DeliverAny

SpecOrder == InitSource /\ [][NextOrder]_vars

----------------------------------------------------------------------------
(* Claims about the source cache (SpecSource) *)

\* A step that is a scan.
ScanStep == last' # last /\ last'.op = "scan"

\* C1, as stated: two get_cached_data calls on one source less than DATA_TTL
\* apart never both invoke the fetch function (a fetch function is never
\* invoked less than DATA_TTL after its previous invocation).
C1_AtMostOneFetchWithinTTL ==
    [][\A k \in SOURCES :
          (ScanStep /\ last'.outcome[k] # "hit" /\ fetch_log[k].at # NoTime)
              => now - fetch_log[k].at >= DATA_TTL]_vars

\* C1, amended: a get_cached_data call made less than DATA_TTL after the
\* latest invocation of the source's fetch function, when that invocation
\* returned a non-empty reading, invokes nothing, returns that reading and
\* leaves the entry alone.
C1_HitSuppressesRefetch ==
    [][\A k \in SOURCES :
          (ScanStep /\ Truthy(fetch_log[k].data) /\ now - fetch_log[k].at < DATA_TTL)
              => /\ last'.outcome[k] = "hit"
                 /\ last'.got[k] = fetch_log[k].data
                 /\ DATA_CACHE'[k] = DATA_CACHE[k]
                 /\ fetch_log'[k] = fetch_log[k]]_vars

\* A scan, later than the fetch that filled the entry, served from the cache.
C1_Witness ==
    /\ last.op = "scan"
    /\ last.outcome["weather"] = "hit"
    /\ last.got["weather"] = Weather1
    /\ fetch_log["weather"].at < last.at

\* C2: an entry is valid iff now - timestamp < DATA_TTL (strict); a call that
\* finds an entry at least DATA_TTL old invokes the fetch function, and a
\* reading it returns replaces the entry, stamped with the current time.
C2_ExpiryTriggersRefetch ==
    last.op = "scan" =>
        \A k \in SOURCES :
            last.age[k] # NoTime =>
                /\ (last.age[k] < DATA_TTL) <=> (last.outcome[k] = "hit")
                /\ (last.age[k] >= DATA_TTL /\ last.outcome[k] = "reading")
                       => DATA_CACHE[k] = [data |-> last.got[k], timestamp |-> last.at]

\* A scan found the weather entry exactly DATA_TTL old and replaced it.
C2_Witness ==
    /\ last.op = "scan"
    /\ last.age["weather"] = DATA_TTL
    /\ last.outcome["weather"] = "reading"
    /\ DATA_CACHE["weather"].timestamp = last.at

\* C3, as stated: when a source's fetch fails (the fetch function raises,
\* returns None, or returns the zeros of its error path), get_cached_data
\* yields no value, the entry stays as it was and a fetch made next would
\* invoke the fetch function again.
C3_FailureNeverCached ==
    [][\A k \in SOURCES :
          (ScanStep /\ last'.outcome[k] \in {"raise", "none", "zeros"})
              => /\ last'.got[k] = None
                 /\ DATA_CACHE'[k] = DATA_CACHE[k]
                 /\ \/ DATA_CACHE'[k].timestamp = NoTime
                    \/ now - DATA_CACHE'[k].timestamp >= DATA_TTL]_vars

----------------------------------------------------------------------------
(* Claims about the decision cache (SpecAgent) *)

\* The six fields run_agent_analysis hashes, as a dict written in the code's
\* order, taken from a situation.
HashedItems(state) ==
    << <<"temp", state.temp>>, <<"rain", state.rain>>, <<"aqi", state.aqi>>,
       <<"vector_risk", state.vector>>, <<"resp_risk", state.respiratory>>,
       <<"water_risk", state.water>> >>

Rotate(items, n) ==
    [i \in 1..Len(items) |-> items[((i + n - 1) % Len(items)) + 1]]

Reverse(items) == [i \in 1..Len(items) |-> items[Len(items) + 1 - i]]

\* The same dict written in other insertion orders.
Orders(items) ==
    {Rotate(items, n) : n \in 0..(Len(items) - 1)}
        \cup {Reverse(Rotate(items, n)) : n \in 0..(Len(items) - 1)}

\* A scan that ran run_agent_analysis past the key test.
AgentScan == last.op = "scan" /\ last.hash # None

\* The entry a scan found could serve a call at the scan's time.
FoundLive ==
    /\ Truthy(last.found.response)
    /\ last.found.timestamp # NoTime
    /\ last.at - last.found.timestamp < AGENT_TTL

\* C4: the hash is the same whatever the insertion order of the state dict,
\* and a call for the field values of a generation that stored a plan less
\* than AGENT_TTL ago, the entry not replaced since, returns that plan
\* without invoking the language model.
C4_DecisionDedup ==
    AgentScan =>
        /\ \A d \in Orders(HashedItems(last.state)) : md5(json_dumps(d)) = last.hash
        /\ (/\ last.prior # None
            /\ last.prior.result = "stored" /\ ~last.prior.replaced
            /\ HashedItems(last.prior.state) = HashedItems(last.state)
            /\ last.at - last.prior.at < AGENT_TTL)
               => /\ ~last.generated
                  /\ last.ai_agent = last.found.response
                  /\ AGENT_CACHE = last.found

\* A later scan of the same situation was served from the cache.
C4_Witness ==
    /\ AgentScan
    /\ ~last.generated
    /\ last.ai_agent = PlanA
    /\ last.found.timestamp < last.at
    /\ last.prior.state = last.state

\* C5, as stated: a scan whose situation differs in any field (temperature,
\* rainfall, AQI, humidity, or one of the three scores) from the one the
\* live entry was generated for has another hash and invokes the language
\* model.
C5_AnyFieldInvalidates ==
    (AgentScan /\ FoundLive) =>
        \A g \in agent_log :
            (g.hash = last.found.last_hash /\ g.at = last.found.timestamp
             /\ g.state # last.state)
                => last.hash # last.found.last_hash /\ last.generated

\* C5, amended: a scan whose situation differs in one of the six hashed
\* fields (temperature, rainfall, AQI, the three scores) from the one the live
\* entry was generated for has another hash and invokes the language model.
C5_HashedFieldInvalidates ==
    (AgentScan /\ FoundLive) =>
        \A g \in agent_log :
            (g.hash = last.found.last_hash /\ g.at = last.found.timestamp
             /\ HashedItems(g.state) # HashedItems(last.state))
                => last.hash # last.found.last_hash /\ last.generated

\* The temperature alone changed under a live entry, and a plan was generated.
C5_Witness ==
    /\ AgentScan /\ FoundLive
    /\ last.generated
    /\ \E g \in agent_log :
           /\ g.hash = last.found.last_hash /\ g.at = last.found.timestamp
           /\ g.state.temp # last.state.temp
           /\ [g.state EXCEPT !.temp = last.state.temp] = last.state

C7_DifferentHashAlwaysInvalidates ==
    (AgentScan /\ ~last.generated) => ~last.prior.crossed

\* The invocations whose stored plan is the entry of AGENT_CACHE.
LiveGenerations == {g \in agent_log : g.result = "stored" /\ ~g.replaced}

\* C7, amended: AGENT_CACHE holds one entry, and a scan with another hash
\* whose generation succeeds replaces it outright: hash, plan and time are
\* those of the new generation, and a scan is served a plan as a cache hit
\* only if no generation for another hash has succeeded since it was stored.
C7_SuccessfulGenerationReplaces ==
    /\ Cardinality(LiveGenerations) <= 1
    /\ \A g \in LiveGenerations :
           AGENT_CACHE.last_hash = g.hash /\ AGENT_CACHE.timestamp = g.at
    /\ (AgentScan /\ last.generated /\ ~last.failed) =>
           AGENT_CACHE = [last_hash |-> last.hash, response |-> last.ai_agent,
                          timestamp |-> last.at]
    /\ (AgentScan /\ ~last.generated) =>
           /\ last.prior.result = "stored" /\ ~last.prior.replaced
           /\ last.prior.at = last.found.timestamp
           /\ last.ai_agent = last.found.response

\* A generation for another hash succeeded while the entry was live, and
\* took its place.
C7_Witness ==
    /\ AgentScan /\ FoundLive
    /\ last.found.last_hash # last.hash
    /\ last.generated /\ ~last.failed
    /\ AGENT_CACHE.last_hash = last.hash
    /\ AGENT_CACHE.timestamp = last.at

\* C8, as stated: the language model is invoked for a situation only if its
\* latest invocation for that situation is at least AGENT_TTL old.
C8_OncePerStatePerWindow ==
    (AgentScan /\ last.generated /\ last.prior # None /\ last.prior.state = last.state)
        => last.at - last.prior.at >= AGENT_TTL

\* C8, amended: the language model is invoked again for a hash less than
\* AGENT_TTL after its latest invocation for it only if that invocation
\* failed or stored an empty value, or a generation for another hash has
\* stored a value since.
C8_OncePerLiveEntry ==
    (AgentScan /\ last.generated /\ last.prior # None
     /\ last.at - last.prior.at < AGENT_TTL)
        => \/ last.prior.result \in {"failed", "falsy"}
           \/ last.prior.replaced

\* Scans alternated between two situations: a plan was generated again for
\* the first, less than AGENT_TTL after the plan stored for it.
C8_Witness ==
    /\ AgentScan /\ last.generated
    /\ last.prior # None
    /\ last.prior.state = last.state
    /\ last.prior.result = "stored" /\ last.prior.replaced
    /\ last.at - last.prior.at < AGENT_TTL

\* The plan of entry d is that of entry c, apart from the status marks.
SamePlan(c, d) ==
    \/ d.response = c.response
    \/ /\ Truthy(c.response) /\ Truthy(d.response)
       /\ DOMAIN d.response = DOMAIN c.response
       /\ \A f \in DOMAIN c.response \ {"actions"} : d.response[f] = c.response[f]
       /\ "actions" \in DOMAIN c.response
       /\ Len(d.response.actions) = Len(c.response.actions)
       /\ \A i \in 1..Len(c.response.actions) :
              [d.response.actions[i] EXCEPT !.status = "PENDING"] =
                  [c.response.actions[i] EXCEPT !.status = "PENDING"]

\* The hash of the situation a scan response describes.
StateHash(state) ==
    current_hash([Monthly_Avg_Temp |-> state.temp, Rainfall_mm |-> state.rain,
                  Monthly_Avg_AQI |-> state.aqi],
                 [Vector_Pred |-> state.vector, Respiratory_Pred |-> state.respiratory,
                  Water_Pred |-> state.water])

\* C25: the entry of the decision cache is updated as a whole.  Its hash, plan
\* and timestamp are all absent, or the hash and the timestamp are both
\* there; a step either keeps hash, timestamp and plan, or is a scan whose
\* generation succeeded and stores the hash of the state the scan saw, the
\* plan the model gave for it and the time of the scan, all three together.
C25_CacheEntryAtomic ==
    /\ [](\/ AGENT_CACHE = EmptyAgentCache
          \/ AGENT_CACHE.last_hash # None /\ AGENT_CACHE.timestamp # NoTime)
    /\ [][\/ /\ AGENT_CACHE'.last_hash = AGENT_CACHE.last_hash
             /\ AGENT_CACHE'.timestamp = AGENT_CACHE.timestamp
             /\ SamePlan(AGENT_CACHE, AGENT_CACHE')
          \/ /\ last'.op = "scan"
             /\ last'.generated /\ ~last'.failed
             /\ AGENT_CACHE'.last_hash = StateHash(last'.state)
             /\ AGENT_CACHE'.response = last'.ai_agent
             /\ AGENT_CACHE'.timestamp = last'.at]_vars

\* A successful generation for a new state has replaced the entry of another.
C25_Witness ==
    /\ last.op = "scan"
    /\ last.generated /\ ~last.failed
    /\ last.found.last_hash \notin {None, last.hash}
    /\ AGENT_CACHE.last_hash = StateHash(last.state)
    /\ AGENT_CACHE.timestamp = last.at
    /\ Truthy(AGENT_CACHE.response)

----------------------------------------------------------------------------
(* Claims about the dispatcher (SpecExec) *)

\* A call of execute_action has run.
ExecuteStep == last' # last /\ last'.op = "execute"

\* The tool a request names, NoTool if it carries no tool call.
RequestTool(request) ==
    Get(IF Truthy(request.function_payload) THEN request.function_payload ELSE EmptyDict,
        "tool", NoTool)

\* C9, as stated: a call of type PROTOCOL with no tool call, or with a tool
\* other than ALERT_EMAIL and GENERATE_PO, returns success, appends exactly
\* one entry to system_logs before it returns, and changes no inventory count.
C9_FallbackAppendsOneLog ==
    [][(/\ ExecuteStep
        /\ last'.request.type = "PROTOCOL"
        /\ RequestTool(last'.request) \notin {"ALERT_EMAIL", "GENERATE_PO"})
           => /\ last'.response.success
              /\ Len(HOSPITAL_STATE'.system_logs) = Len(HOSPITAL_STATE.system_logs) + 1
              /\ HOSPITAL_STATE'.inventory = HOSPITAL_STATE.inventory]_vars

\* C10, as stated: a call of type RESOURCE or INVENTORY with no tool call
\* raises the count of some inventory line (the one its title names, or a
\* default one).
C10_TitleKeywordBumpsInventory ==
    [][(/\ ExecuteStep
        /\ last'.request.type \in {"RESOURCE", "INVENTORY"}
        /\ last'.request.function_payload = None)
           => \E i \in 1..Len(HOSPITAL_STATE'.inventory) :
                  \/ i > Len(HOSPITAL_STATE.inventory)
                  \/ HOSPITAL_STATE'.inventory[i][2] > HOSPITAL_STATE.inventory[i][2]]_vars

\* C20, as stated: no call of execute_action lets an exception out; whatever
\* the tool and the args (args that are no mapping included), the caller gets
\* a result with a success flag and a message.
C20_NoExceptionPropagates ==
    last.op = "execute"
        => /\ "raised" \notin DOMAIN last.response
           /\ "success" \in DOMAIN last.response
           /\ "message" \in DOMAIN last.response

----------------------------------------------------------------------------
(* Claims about the dispatcher on a cached plan (SpecPlan) *)

\* The indices of the actions of a cached response that carry the id; none
\* when no plan is cached.
ActionsWithId(response, id) ==
    IF Truthy(response) /\ "actions" \in DOMAIN response
    THEN {i \in 1..Len(response.actions) : response.actions[i].id = id}
    ELSE {}

\* C17: a call of execute_action whose action_id is in the cached plan
\* leaves that action (the first with the id) EXECUTED, whether it was
\* PENDING or EXECUTED before, and every other action as it was; the call
\* returns success, the second time as the first, and adds at most one
\* entry to system_logs.
C17_IdempotentStatus ==
    [][(ExecuteStep /\ ActionsWithId(AGENT_CACHE.response, last'.request.action_id) # {})
          => \E i \in ActionsWithId(AGENT_CACHE.response, last'.request.action_id) :
                /\ \A j \in ActionsWithId(AGENT_CACHE.response, last'.request.action_id) : i <= j
                /\ AGENT_CACHE'.response.actions =
                       [AGENT_CACHE.response.actions EXCEPT ![i].status = "EXECUTED"]
                /\ AGENT_CACHE'.response.actions[i].status = "EXECUTED"
                /\ last'.response.status = 200 /\ last'.response.success
                /\ Len(HOSPITAL_STATE'.system_logs) <= Len(HOSPITAL_STATE.system_logs) + 1]_vars

\* An action that was EXECUTED already has been executed again.
C17_Witness ==
    /\ last.op = "execute"
    /\ \E i \in ActionsWithId(last.before.response, last.request.action_id) :
           /\ \A j \in ActionsWithId(last.before.response, last.request.action_id) : i <= j
           /\ last.before.response.actions[i].status = "EXECUTED"
           /\ AGENT_CACHE.response.actions[i].status = "EXECUTED"
    /\ last.response.success

\* What a call returns, by its tool call and the notifier's answer alone.
ToolResult(call) ==
    IF RequestTool(call.request) = "ALERT_EMAIL"
    THEN /\ Len(call.effects) = 1 /\ call.effects[1].kind = "email"
         /\ call.response = [status |-> 200, success |-> TRUE,
                              message |-> [text |-> IF call.effects[1].ok
                                                    THEN "HTML Alert sent"
                                                    ELSE "Email Failed (Check Server Logs)"]]
    ELSE /\ call.effects = <<>>
         /\ call.response = [status |-> 200, success |-> TRUE,
                              message |-> [text |-> "logged in system registry",
                                           title |-> call.request.title]]

\* C18: a call whose action_id is in no action of the cached plan, or that
\* finds no plan cached, changes no status and is dispatched to its tool;
\* what it returns is what the tool returns, as for a call whose id matched.
C18_UnknownIdIsNoError ==
    [][ExecuteStep
          => /\ ToolResult(last')
             /\ ActionsWithId(AGENT_CACHE.response, last'.request.action_id) = {}
                    => AGENT_CACHE' = AGENT_CACHE]_vars

\* An alert was sent for an id that the cached plan does not have.
C18_Witness ==
    /\ last.op = "execute"
    /\ Truthy(last.before.response)
    /\ Len(last.before.response.actions) > 0
    /\ ActionsWithId(last.before.response, last.request.action_id) = {}
    /\ RequestTool(last.request) = "ALERT_EMAIL"
    /\ last.response.success
    /\ AGENT_CACHE.response = last.before.response

\* C19: a call with the tool ALERT_EMAIL returns success: true whether
\* send_email_real succeeded or not; its failure shows in the message only,
\* and neither the inventory nor the log nor the deferred tasks change.
C19_AlertLeniency ==
    [][(ExecuteStep /\ RequestTool(last'.request) = "ALERT_EMAIL")
          => /\ last'.response.status = 200
             /\ last'.response.success
             /\ Len(last'.effects) = 1 /\ last'.effects[1].kind = "email"
             /\ last'.response.message.text =
                    (IF last'.effects[1].ok THEN "HTML Alert sent"
                     ELSE "Email Failed (Check Server Logs)")
             /\ HOSPITAL_STATE' = HOSPITAL_STATE
             /\ background_tasks' = background_tasks]_vars

\* The notifier failed and the call returned success.
C19_Witness ==
    /\ last.op = "execute"
    /\ RequestTool(last.request) = "ALERT_EMAIL"
    /\ ~last.effects[1].ok
    /\ last.response.success
    /\ last.response.message.text = "Email Failed (Check Server Logs)"

\* The first place of the plan that holds an action with the id, 0 if none.
FirstWithId(response, action_id) ==
    IF ActionsWithId(response, action_id) = {} THEN 0
    ELSE CHOOSE i \in ActionsWithId(response, action_id) :
             \A j \in ActionsWithId(response, action_id) : i <= j

\* C27: what execute_action changes of the cached plan is the status of at
\* most one action, the first in plan order with the id of the request, set
\* to EXECUTED; the summary, the actions and their order, every other field
\* of every action, the stored hash and the timestamp stay.  A later scan
\* served from the cache returns the plan with that status still EXECUTED.
C27_StatusOnlyFrame ==
    [][/\ ExecuteStep
          => /\ AGENT_CACHE'.last_hash = AGENT_CACHE.last_hash
             /\ AGENT_CACHE'.timestamp = AGENT_CACHE.timestamp
             /\ IF Truthy(AGENT_CACHE.response)
                THEN /\ AGENT_CACHE'.response.summary = AGENT_CACHE.response.summary
                     /\ DOMAIN AGENT_CACHE'.response = DOMAIN AGENT_CACHE.response
                     /\ Len(AGENT_CACHE'.response.actions) = Len(AGENT_CACHE.response.actions)
                     /\ \A i \in 1..Len(AGENT_CACHE.response.actions) :
                            AGENT_CACHE'.response.actions[i] =
                                IF i = FirstWithId(AGENT_CACHE.response, last'.request.action_id)
                                THEN [AGENT_CACHE.response.actions[i]
                                          EXCEPT !.status = "EXECUTED"]
                                ELSE AGENT_CACHE.response.actions[i]
                ELSE AGENT_CACHE'.response = AGENT_CACHE.response
       /\ (last' # last /\ last'.op = "scan" /\ ~last'.generated)
          => /\ last'.ai_agent = AGENT_CACHE.response
             /\ AGENT_CACHE' = AGENT_CACHE]_vars

\* A scan served from the cache has returned a plan of two actions with the
\* same id, the first of them EXECUTED and the second still PENDING.
C27_Witness ==
    /\ last.op = "scan"
    /\ ~last.generated
    /\ Len(last.ai_agent.actions) = 2
    /\ last.ai_agent.actions[1].id = last.ai_agent.actions[2].id
    /\ last.ai_agent.actions[1].status = "EXECUTED"
    /\ last.ai_agent.actions[2].status = "PENDING"

\* The request is the call for one of the actions of the plan.
FromPlan(request, response) ==
    /\ Truthy(response)
    /\ "actions" \in DOMAIN response
    /\ \E i \in 1..Len(response.actions) :
           /\ response.actions[i].id = request.action_id
           /\ response.actions[i].title = request.title
           /\ response.actions[i].type = request.type
           /\ response.actions[i].function_payload = request.function_payload

\* C28, as stated: a call for an action taken from a plan that a newly
\* generated plan has since replaced marks no action of the replacement plan
\* as EXECUTED, even when the replacement holds an action with the same id.
\* The step looked at is the call that directly follows the replacing scan,
\* which found the old plan in the cache.
C28_StaleCallMarksNothing ==
    [][(/\ last.op = "scan"
        /\ last.generated /\ ~last.failed
        /\ last'.op = "execute"
        /\ FromPlan(last'.request, last.found.response)
        /\ ~FromPlan(last'.request, AGENT_CACHE.response))
           => AGENT_CACHE'.response = AGENT_CACHE.response]_vars

----------------------------------------------------------------------------
(* Claims about the deferred inventory task (SpecShip) *)

\* A deferred task has completed and nothing has run since: `last` holds the
\* task and the inventory it found.
Delivered == last.op = "deliver"

\* The indices of the keys of an inventory that contain the first
\* space-separated token of item, compared without case.
KeysHolding(inventory, item) ==
    {i \in 1..Len(inventory) :
        Contains(Lower(inventory[i][1]), Lower(FirstToken(item)))}

\* C11: when a deferred task for (I, Q) completes and some inventory key
\* contains the first token of I without regard to case, the first such key
\* in inventory order has its count raised by Q, and nothing else about the
\* inventory changes: no other count, no new key.
C11_FuzzyHitBumpsFirstKey ==
    (Delivered /\ KeysHolding(last.before.inventory, last.task.item) # {})
        => \E i \in KeysHolding(last.before.inventory, last.task.item) :
              /\ \A j \in KeysHolding(last.before.inventory, last.task.item) : i <= j
              /\ HOSPITAL_STATE.inventory =
                     [last.before.inventory EXCEPT ![i][2] = @ + last.task.qty]

\* A task has completed whose token was in more than one key.
C11_Witness ==
    /\ Delivered
    /\ Cardinality(KeysHolding(last.before.inventory, last.task.item)) > 1
    /\ HOSPITAL_STATE.inventory[1][2] = last.before.inventory[1][2] + last.task.qty
    /\ last.task.qty > 0

\* C12: when a deferred task for (I, Q) completes and no inventory key
\* contains the first token of I, the inventory gains one key, I verbatim,
\* with count Q; every key it had keeps its place and its count, and I was
\* not among them, so that no existing count is overwritten.
C12_FuzzyMissAddsKey ==
    (Delivered /\ KeysHolding(last.before.inventory, last.task.item) = {})
        => /\ Len(HOSPITAL_STATE.inventory) = Len(last.before.inventory) + 1
           /\ HOSPITAL_STATE.inventory[Len(HOSPITAL_STATE.inventory)]
                  = <<last.task.item, last.task.qty>>
           /\ \A i \in 1..Len(last.before.inventory) :
                  /\ HOSPITAL_STATE.inventory[i] = last.before.inventory[i]
                  /\ last.before.inventory[i][1] # last.task.item

\* An order of mosquito nets has arrived in an inventory without them.
C12_Witness ==
    /\ Delivered
    /\ KeysHolding(last.before.inventory, last.task.item) = {}
    /\ last.task.item = MOSQUITO_NETS
    /\ HOSPITAL_STATE.inventory[Len(INVENTORY) + 1] = <<MOSQUITO_NETS, 50>>

\* A deferred task completes in this step.
DeliverStep == last' # last /\ last'.op = "deliver"

\* C13: a deferred task added at time t changes the inventory and the log
\* no earlier than t + SHIP_DELAY, nothing but a completing task changes
\* them, and when execute_action returns its success for GENERATE_PO both
\* are what they were before the call.
C13_DeferredOrdering ==
    [][/\ DeliverStep => now' >= orders[last'.task.id].at + SHIP_DELAY
       /\ HOSPITAL_STATE' # HOSPITAL_STATE => DeliverStep
       /\ (/\ ExecuteStep
           /\ RequestTool(last'.request) = "GENERATE_PO"
           /\ last'.response.status = 200)
             => /\ last'.response.success
                /\ HOSPITAL_STATE' = HOSPITAL_STATE
                /\ HOSPITAL_STATE'.inventory = last'.before.inventory
                /\ Len(HOSPITAL_STATE'.system_logs) = last'.before.logs]_vars

\* A task has completed at the very end of its delay, with another purchase
\* order returned in between.
C13_Witness ==
    /\ Delivered
    /\ last.at = orders[last.task.id].at + SHIP_DELAY
    /\ HOSPITAL_STATE.inventory # last.before.inventory
    /\ Len(orders) > last.task.id

\* C15, as stated: every deferred task that completes appends one entry to
\* system_logs, when it adds to an existing key and when it creates a key.
C15_CompletionAppendsLog ==
    Delivered => Len(HOSPITAL_STATE.system_logs) = last.before.logs + 1

\* The key that holds the item of the k-th purchase order, and the
\* quantities that the completed tasks among the first n brought to key i.
TargetOf(k) == TargetKey(HOSPITAL_STATE.inventory, orders[k].item)

RECURSIVE Received(_, _)
Received(i, n) ==
    IF n = 0 THEN 0
    ELSE (IF ~(\E j \in 1..Len(background_tasks) : background_tasks[j].id = n)
             /\ TargetOf(n) = i
          THEN orders[n].qty ELSE 0) + Received(i, n - 1)

\* C16: whatever the order in which deferred tasks, calls of execute_action
\* and the clock interleave, no update is lost: the count of every inventory
\* key is its initial count (0 for a key created since) plus the quantities
\* of all completed tasks whose item it holds, every completed task's item is
\* held by a key, and no key occurs twice.
C16_NoLostUpdate ==
    /\ \A i \in 1..Len(HOSPITAL_STATE.inventory) :
           HOSPITAL_STATE.inventory[i][2] =
               (IF i <= Len(INVENTORY) THEN INVENTORY[i][2] ELSE 0)
                   + Received(i, Len(orders))
    /\ \A i, j \in 1..Len(HOSPITAL_STATE.inventory) :
           HOSPITAL_STATE.inventory[i][1] = HOSPITAL_STATE.inventory[j][1] => i = j
    /\ \A k \in 1..Len(orders) :
           ~(\E j \in 1..Len(background_tasks) : background_tasks[j].id = k)
               => TargetOf(k) # 0

\* Two orders of the same new item have both arrived: one key holds both.
C16_Witness ==
    /\ Len(orders) = 2 /\ background_tasks = <<>>
    /\ orders[1].item = MOSQUITO_NETS /\ orders[2].item = MOSQUITO_NETS
    /\ HOSPITAL_STATE.inventory[Len(INVENTORY) + 1] = <<MOSQUITO_NETS, 100>>
    /\ Len(HOSPITAL_STATE.inventory) = Len(INVENTORY) + 1

\* Scheduling
\* The task of the k-th purchase order is waiting; it has completed.
TaskPending(k) == \E i \in 1..Len(background_tasks) : background_tasks[i].id = k
TaskDone(k) == k <= Len(orders) /\ ~TaskPending(k)

\* The sum of the counts of an inventory; the sum of the quantities of the
\* completed tasks among the first n.
RECURSIVE Total(_)
Total(inventory) ==
    IF inventory = <<>> THEN 0
    ELSE inventory[1][2] + Total(Tail(inventory))

RECURSIVE DoneQty(_)
DoneQty(n) ==
    IF n = 0 THEN 0
    ELSE (IF TaskDone(n) THEN orders[n].qty ELSE 0) + DoneQty(n - 1)

\* C14: every deferred task that execute_action adds is eventually applied
\* to the inventory, and exactly once: the inventory holds the quantities of
\* the completed tasks and no more, a completed task never runs again, and
\* the call that adds a task returns at the time it was made with the task
\* still waiting.
C14_EveryTaskAppliedOnce ==
    /\ \A k \in 1..MaxOrders : (k <= Len(orders)) ~> TaskDone(k)
    /\ [](Total(HOSPITAL_STATE.inventory) = Total(INVENTORY) + DoneQty(Len(orders)))
    /\ [][\A k \in 1..MaxOrders :
             /\ TaskDone(k) => TaskDone(k)' /\ ~(DeliverStep /\ last'.task.id = k)
             /\ (DeliverStep /\ last'.task.id = k) => TaskPending(k) /\ TaskDone(k)']_vars
    /\ [][(ExecuteStep /\ Len(orders') > Len(orders))
             => /\ now' = now
                /\ \E i \in 1..Len(background_tasks') :
                       background_tasks'[i].id = Len(orders')]_vars

\* Two tasks were added and both have been applied.
C14_Witness ==
    /\ Len(orders) = 2
    /\ TaskDone(1) /\ TaskDone(2)
    /\ Total(HOSPITAL_STATE.inventory) = Total(INVENTORY) + orders[1].qty + orders[2].qty

----------------------------------------------------------------------------
(* Claims about the scan's error handling (SpecFault) *)

\* A trends reading that int() rejects.
Malformed(trends) == Truthy(trends) /\ \E k \in TREND_KEYS : trends[k] = NaN

\* A fetch function that raised is not seen by the caller of the scan: the
\* scan succeeds on the constant fallback reading of that source, and a scan
\* that ends in a fault ends so because of a malformed reading.
FailingFetcherHidden ==
    /\ last.op = "scan"
          => /\ last.success
             /\ last.outcome["weather"] = "raise"
                   => /\ last.state.temp = WeatherFallback.Monthly_Avg_Temp
                      /\ last.state.rain = WeatherFallback.Rainfall_mm
                      /\ last.state.humidity = WeatherFallback.Monthly_Avg_Humidity
             /\ last.outcome["aqi"] = "raise"
                   => last.state.aqi = AqiFallback.Monthly_Avg_AQI
    /\ last.op = "scan_raised" => Malformed(last.got["trends"])

\* C21, as stated: the scan always returns a well-formed response; a failing
\* fetch function is never surfaced to the caller (the fallback reading takes
\* its place), and an internal fault during a scan is reported as a result
\* with success false and a message, not as a transport-level error.
C21_FaultIsFailureResult ==
    /\ FailingFetcherHidden
    /\ last.op = "scan_raised"
          => /\ last.response.status = 200
             /\ "success" \in DOMAIN last.response
             /\ "message" \in DOMAIN last.response
             /\ ~last.response.success

\* C21, amended: a failing fetch function is never surfaced to the caller,
\* and an internal fault during a scan is reported as an HTTP 500 error that
\* carries the fault's message, with no success flag.
C21_FaultIsHttp500 ==
    /\ FailingFetcherHidden
    /\ last.op = "scan_raised"
          => /\ last.response.status = 500
             /\ "detail" \in DOMAIN last.response
             /\ "success" \notin DOMAIN last.response

\* A scan ended in a fault while one of its fetch functions had raised.
C21_Witness ==
    /\ last.op = "scan_raised"
    /\ last.outcome["weather"] = "raise"
    /\ Malformed(last.got["trends"])

----------------------------------------------------------------------------
(* Claims about tool calls with defaults and failing side effects (SpecOrder) *)

RequestArgs(request) ==
    Get(IF Truthy(request.function_payload) THEN request.function_payload ELSE EmptyDict,
        "args", EmptyDict)

\* A tool call that leaves out args its tool reads.
MissingArgs(request) ==
    \/ /\ RequestTool(request) = "GENERATE_PO"
       /\ {"item", "quantity"} \ DOMAIN RequestArgs(request) # {}
    \/ /\ RequestTool(request) = "ALERT_EMAIL"
       /\ "subject" \notin DOMAIN RequestArgs(request)

\* C22, as stated: a call whose tool call has missing args ends in the
\* generic log fallback: it returns success, and creates no order file, no
\* notification and no deferred task.
C22_MissingArgsFallBack ==
    [][(ExecuteStep /\ MissingArgs(last'.request))
          => /\ last'.response = Ok([text |-> "logged in system registry",
                                     title |-> last'.request.title])
             /\ last'.effects = <<>>
             /\ background_tasks' = background_tasks
             /\ orders' = orders]_vars

\* The item and the quantity an order without them is placed for.
DefaultItem ==
    <<"M", "e", "d", "i", "c", "a", "l", " ", "S", "u", "p", "p", "l", "i", "e", "s">>

DefaultQuantity == 100

\* C22, amended: a call whose tool call has missing args takes the path of
\* its tool with the missing values defaulted: it returns success, never an
\* error; an order is filed, notified and scheduled for the item given or
\* Medical Supplies and the quantity given or 100, an alert is sent under the
\* subject Automated Alert.
C22_MissingArgsDefaulted ==
    [][(ExecuteStep /\ MissingArgs(last'.request))
          => /\ "raised" \notin DOMAIN last'.response
             /\ last'.response.success
             /\ last'.response.message.text # "logged in system registry"
             /\ RequestTool(last'.request) = "GENERATE_PO"
                   => /\ Len(last'.effects) = 3
                      /\ last'.effects[1].kind = "po_file"
                      /\ last'.effects[2].kind = "email"
                      /\ last'.effects[3].kind = "task"
                      /\ Len(background_tasks') = Len(background_tasks) + 1
                      /\ background_tasks'[Len(background_tasks')].item =
                             Get(RequestArgs(last'.request), "item", DefaultItem)
                      /\ background_tasks'[Len(background_tasks')].qty =
                             Get(RequestArgs(last'.request), "quantity", DefaultQuantity)
             /\ RequestTool(last'.request) = "ALERT_EMAIL"
                   => /\ Len(last'.effects) = 1
                      /\ last'.effects[1].kind = "email"
                      /\ last'.effects[1].subject = "Automated Alert"]_vars

\* An order without args has been placed for 100 Medical Supplies.
C22_Witness ==
    /\ last.op = "execute"
    /\ RequestTool(last.request) = "GENERATE_PO"
    /\ RequestArgs(last.request) = EmptyDict
    /\ \E i \in 1..Len(background_tasks) :
           /\ background_tasks[i].item = DefaultItem
           /\ background_tasks[i].qty = DefaultQuantity

\* The keys of the inventory dict.
Keys(inventory) == {inventory[i][1] : i \in 1..Len(inventory)}

\* C23: no inventory key is ever deleted: every step leaves the keys it
\* found, so the key set of a state contains that of every earlier state,
\* and the six initial items are there in every state.
C23_InventoryKeysPersist ==
    [][/\ Keys(HOSPITAL_STATE.inventory) \subseteq Keys(HOSPITAL_STATE'.inventory)
       /\ Keys(INVENTORY) \subseteq Keys(HOSPITAL_STATE'.inventory)]_vars

\* A completed task has added a seventh key.
C23_Witness ==
    /\ last.op = "deliver"
    /\ Len(last.before.inventory) = Len(INVENTORY)
    /\ Len(HOSPITAL_STATE.inventory) = Len(INVENTORY) + 1
    /\ Keys(INVENTORY) \subseteq Keys(HOSPITAL_STATE.inventory)

\* A purchase order whose file, invoice or both failed.
OrderSideEffectFailed ==
    /\ ExecuteStep
    /\ RequestTool(last'.request) = "GENERATE_PO"
    /\ \E i \in 1..Len(last'.effects) :
           /\ last'.effects[i].kind \in {"po_file", "email"}
           /\ ~last'.effects[i].ok

\* C24: the side effects of a purchase order are not rolled back: when the
\* order file, the invoice or both fail, the deferred task is scheduled all
\* the same, nothing already done is undone (the earlier tasks, the inventory,
\* the log and the cached plan stay, the file and the invoice are attempted
\* each once), and the call returns success.
C24_NoRollback ==
    [][OrderSideEffectFailed
          => /\ last'.response.status = 200
             /\ last'.response.success
             /\ Len(last'.effects) = 3
             /\ last'.effects[3].kind = "task"
             /\ Len(background_tasks') = Len(background_tasks) + 1
             /\ SubSeq(background_tasks', 1, Len(background_tasks)) = background_tasks
             /\ background_tasks'[Len(background_tasks')].item = last'.effects[3].item
             /\ background_tasks'[Len(background_tasks')].qty = last'.effects[3].qty
             /\ background_tasks'[Len(background_tasks')].ready_at = now + SHIP_DELAY
             /\ HOSPITAL_STATE' = HOSPITAL_STATE]_vars

\* An order whose file and invoice both failed has returned, its task pending.
C24_Witness ==
    /\ last.op = "execute"
    /\ RequestTool(last.request) = "GENERATE_PO"
    /\ ~last.effects[1].ok
    /\ ~last.effects[2].ok
    /\ last.response.success
    /\ TaskPending(Len(orders))

\* C26: the operational log is append-only: every step leaves the entries it
\* found, in their order, so the log of a state extends that of every earlier
\* state.
C26_LogAppendOnly ==
    [][/\ Len(HOSPITAL_STATE'.system_logs) >= Len(HOSPITAL_STATE.system_logs)
       /\ SubSeq(HOSPITAL_STATE'.system_logs, 1, Len(HOSPITAL_STATE.system_logs))
              = HOSPITAL_STATE.system_logs]_vars

\* A second entry has been appended behind the first.
C26_Witness ==
    /\ last.op = "deliver"
    /\ last.before.logs >= 1
    /\ Len(HOSPITAL_STATE.system_logs) = last.before.logs + 1

----------------------------------------------------------------------------
(* Claims about the trends fetcher (SpecTrends) *)

\* The API attempts of the running call, in order.
Attempted == trends_call.outcomes

\* The places of the attempts that returned (data or an empty frame): each
\* ends the tries of one batch.
Fetched(outcomes) == {j \in 1..Len(outcomes) : outcomes[j] # "raise"}

\* Three tries in a row raised, starting at place j.
ThreeRaises(outcomes, j) ==
    /\ j + 2 <= Len(outcomes)
    /\ \A n \in j..(j + 2) : outcomes[n] = "raise"

ResultStep == trends_call.pc = "result" /\ trends_call'.pc = "done"

\* Some batch of the call failed all its attempts.
BatchFailed(outcomes) == Len(outcomes) >= 3 /\ ThreeRaises(outcomes, Len(outcomes) - 2)

\* read_csv can parse the file and finds a row in it.
Readable(file) == file.exists /\ ~file.corrupt /\ Len(file.lines) > 1

\* The dict holds, keyword by keyword, the cells of the line.
HoldsRow(dict, line) ==
    /\ Len(dict) = Len(KEYWORDS_LIST)
    /\ \A n \in 1..Len(dict) :
           /\ dict[n][1] = KEYWORDS_LIST[n]
           /\ FloatToText(dict[n][2]) = line[n]

\* C30: a call in which a batch failed all its attempts returns the last row
\* of the CSV file if the file can be read, and zero for every keyword if
\* not; it returns none of the values the earlier batches collected and
\* appends no row.  A call in which every batch succeeded appends exactly
\* one row, that of the values it returns.  No other step writes the file.
C30_FallbackOrOneRow ==
    [][IF ResultStep
       THEN IF BatchFailed(Attempted)
            THEN /\ LOG_FILE' = LOG_FILE
                 /\ IF Readable(LOG_FILE)
                    THEN HoldsRow(trends_call'.ret, LOG_FILE.lines[Len(LOG_FILE.lines)])
                    ELSE /\ Len(trends_call'.ret) = Len(KEYWORDS_LIST)
                         /\ \A n \in 1..Len(KEYWORDS_LIST) :
                                trends_call'.ret[n] = <<KEYWORDS_LIST[n], 0>>
            ELSE /\ Len(LOG_FILE'.lines) =
                        Len(LOG_FILE.lines) + (IF LOG_FILE.exists THEN 1 ELSE 2)
                 /\ SubSeq(LOG_FILE'.lines, 1, Len(LOG_FILE.lines)) = LOG_FILE.lines
                 /\ HoldsRow(trends_call'.ret, LOG_FILE'.lines[Len(LOG_FILE'.lines)])
                 /\ trends_call'.ret = trends_call.current_trends
       ELSE LOG_FILE' = LOG_FILE]_vars

\* A call whose first batch was fetched and whose second batch failed has
\* returned the row of an earlier day.
C30_Witness ==
    /\ trends_call.pc = "done"
    /\ BatchFailed(Attempted)
    /\ Len(trends_call.current_trends) = BATCH_SIZE
    /\ trends_call.current_trends[1][2] = 500
    /\ Readable(LOG_FILE)
    /\ \A n \in 1..Len(KEYWORDS_LIST) : trends_call.ret[n] = <<KEYWORDS_LIST[n], 300>>

============================================================================
